---- MODULE Spec2Model ----
(***************************************************************************)
(* AutotraderV3: the order lifecycle of BaseStrategy / MeanReversionStrategy *)
(* (src/autotrader/strategies.py) driven by the backtesting engine that      *)
(* run_coarse_backtest starts (src/autotrader/backtesting.py), and the       *)
(* hyperparameter search of optimize_strategy_params_on_backtest             *)
(* (src/autotrader/optimization.py).                                         *)
(*                                                                           *)
(* Specification Spec is one strategy run: the engine calls next() once per  *)
(* bar and notify_order() once per status change of an order the strategy    *)
(* submitted.  The engine is external; it is modelled as any broker that     *)
(* honours the order lifecycle Created -> Submitted -> Accepted -> (Partial) *)
(* -> Completed | Canceled | Margin | Rejected, with bars and notifications  *)
(* interleaved freely.                                                       *)
(***************************************************************************)
EXTENDS Integers, Sequences, FiniteSets, TLC

\* Number of bars on which the engine calls next() in one run.
MaxBars == 3

\* Largest n_trials of an optimization.
MaxTrials == 3

\* Python's None where a handle, an id or a price is expected (handles, ids
\* and prices start at 1), and where a justification string is expected.
None == 0
NoJustification == "None"

VARIABLES
    event_log,              \* BaseStrategy.event_log
    data_log,               \* BaseStrategy.data_log
    order,                  \* BaseStrategy.order: None or a handle into orders
    current_submission_id,  \* BaseStrategy.current_submission_id
    entry_price,            \* MeanReversionStrategy.entry_price
    position,               \* the broker's position, in half stakes (self.position)
    orders,                 \* the orders the broker holds, by handle
    uuid,                   \* number of ids uuid.uuid4() has produced
    run_pc,                 \* "running" | "returned" | "raised": cerebro.run()
    signalled,              \* history: some should_buy/should_sell answered True
    last_call,              \* history: the handler the engine called last
    n_next,                 \* history: calls of next()
    n_should_buy,           \* history: calls of should_buy()
    n_should_sell           \* history: calls of should_sell()

runvars == <<event_log, data_log, order, current_submission_id, entry_price,
             position, orders, uuid, run_pc, signalled, last_call, n_next,
             n_should_buy, n_should_sell>>

----------------------------------------------------------------------------
\* The engine's order objects.

\* Statuses after which the broker is done with an order.
Resolved == {"Completed", "Canceled", "Margin", "Rejected"}

\* The statuses the broker may notify next for an order last notified as st.
Lifecycle(st) ==
    CASE st = "Created"   -> {"Submitted"}
      [] st = "Submitted" -> {"Accepted", "Margin", "Rejected"}
      [] st = "Accepted"  -> {"Partial", "Completed", "Canceled"}
      [] st = "Partial"   -> {"Completed", "Canceled"}
      [] OTHER            -> {}

Handles == 1..Len(orders)

\* alive: submitted and not yet resolved.
Alive(o) == orders[o].status \notin Resolved

Unresolved == {o \in Handles : Alive(o)}

\* Half stakes the broker fills when it moves order o to status st: a partial
\* fill is one half, completion fills what remains of the two halves.
Fill(o, st) ==
    CASE st = "Partial"   -> 1
      [] st = "Completed" -> 2 - orders[o].executed
      [] OTHER            -> 0

Signed(o, n) == IF orders[o].isbuy THEN n ELSE 0 - n

\* The bar the engine is at: the one after the bars next() has handled.  A
\* notification is delivered, and next() runs, with the data feed at this bar.
\* Now is its timestamp, self.datas[0].datetime.datetime(0), and ExecPrice
\* the price at which the broker fills on it.
Now == Len(data_log) + 1

ExecPrice == Len(data_log) + 1

\* The close of the bar the engine is at, self.dataclose[0].
ClosePrice == Len(data_log) + 1

----------------------------------------------------------------------------
\* Events (src/autotrader/events.py).

NoAction(t) == [type |-> "NoAction", timestamp |-> t, justification |-> NoJustification]

BuyOrderSubmission(t, id, size, price, just) ==
    [type |-> "BuyOrderSubmission", timestamp |-> t, submission_id |-> id,
     size |-> size, ref_price |-> price, justification |-> just]

SellOrderSubmission(t, id, size, price, just) ==
    [type |-> "SellOrderSubmission", timestamp |-> t, submission_id |-> id,
     size |-> size, ref_price |-> price, justification |-> just]

BuyOrderExecution(t, id, price, size) ==
    [type |-> "BuyOrderExecution", timestamp |-> t, submission_id |-> id,
     ref_price |-> price, size |-> size, justification |-> NoJustification]

SellOrderExecution(t, id, price, size) ==
    [type |-> "SellOrderExecution", timestamp |-> t, submission_id |-> id,
     ref_price |-> price, size |-> size, justification |-> NoJustification]

BuyOrderRejection(t, id, just) ==
    [type |-> "BuyOrderRejection", timestamp |-> t, submission_id |-> id,
     justification |-> just]

SellOrderRejection(t, id, just) ==
    [type |-> "SellOrderRejection", timestamp |-> t, submission_id |-> id,
     justification |-> just]

SubmissionTypes == {"BuyOrderSubmission", "SellOrderSubmission"}
ExecutionTypes  == {"BuyOrderExecution", "SellOrderExecution"}
RejectionTypes  == {"BuyOrderRejection", "SellOrderRejection"}

\* A record of one call by the engine: next() with the two signals the
\* strategy computed, or notify_order() with an order and its status.
Call(op, buy_signal, sell_signal, o, st) ==
    [op |-> op, buy_signal |-> buy_signal, sell_signal |-> sell_signal,
     order |-> o, status |-> st]

----------------------------------------------------------------------------
\* BaseStrategy.__init__ and MeanReversionStrategy.__init__, with a broker
\* that holds no order and no position.
InitRun ==
    /\ event_log = <<>>
    /\ data_log = <<>>
    /\ order = None
    /\ current_submission_id = None
    /\ entry_price = None
    /\ position = 0
    /\ orders = <<>>
    /\ uuid = 0
    /\ run_pc = "running"
    /\ signalled = FALSE
    /\ last_call = Call("init", FALSE, FALSE, None, "None")
    /\ n_next = 0
    /\ n_should_buy = 0
    /\ n_should_sell = 0

\* The broker's side of a notification: order o moves to status st, and a fill
\* changes the position before the strategy is told.
BrokerNotify(o, st) ==
    /\ orders' = [orders EXCEPT ![o].status = st,
                                ![o].executed = @ + Fill(o, st)]
    /\ position' = position + Signed(o, Fill(o, st))

\* A bug: notify_order overwrites the order's id with current_submission_id.
CurrentSubmissionId(o, st) == current_submission_id

\* The submission id notify_order reads from the order it is handed.  The
\* broker hands over a copy of the order taken at the status change; the copy
\* for Submitted is taken inside buy()/sell(), before next() tags the order, so
\* it has no submission_id attribute and gets current_submission_id.
OrderSubmissionId(o, st) ==
    IF st = "Submitted" THEN current_submission_id ELSE orders[o].submission_id

\* A bug: the submission id is reset when any order completes.
ResetOnAnyCompletion(o, st) ==
    IF st = "Completed" THEN None ELSE current_submission_id

\* current_submission_id after notify_order: reset only after the execution
\* of a sell.
SubmissionIdAfter(o, st) ==
    IF st = "Completed" /\ ~orders[o].isbuy
      THEN None
      ELSE current_submission_id

\* BaseStrategy.notify_order(order), order being handle o notified as st.
notify_order(o, st) ==
    LET sid  == OrderSubmissionId(o, st)
        size == Signed(o, orders[o].executed + Fill(o, st))
        just == IF st = "Margin"
                  THEN "Order rejected due to insufficient margin."
                  ELSE "Order canceled."
    IN  /\ event_log' =
              IF st = "Completed"
                THEN IF orders[o].isbuy
                       THEN Append(event_log, BuyOrderExecution(Now, sid, ExecPrice, size))
                       ELSE Append(event_log, SellOrderExecution(Now, sid, ExecPrice, size))
              ELSE IF st \in {"Canceled", "Margin", "Rejected"}
                THEN IF orders[o].isbuy
                       THEN Append(event_log, BuyOrderRejection(Now, sid, just))
                       ELSE Append(event_log, SellOrderRejection(Now, sid, just))
              ELSE event_log
        /\ current_submission_id' = SubmissionIdAfter(o, st)
        /\ order' = None

\* A bug: the strategy does not override notify_order.
BaseStrategy_notify_order(o, st) ==
    /\ notify_order(o, st)
    /\ UNCHANGED entry_price

\* MeanReversionStrategy.notify_order(order).
MeanReversionStrategy_notify_order(o, st) ==
    /\ notify_order(o, st)
    /\ entry_price' =
          IF st = "Completed" /\ orders[o].isbuy THEN ExecPrice
          ELSE IF st = "Completed" /\ ~orders[o].isbuy THEN None
          ELSE entry_price

\* The engine notifies the strategy of the next status of one of its orders.
NotifyOrder ==
    /\ run_pc = "running"
    /\ \E o \in Handles : \E st \in Lifecycle(orders[o].status) :
          /\ BrokerNotify(o, st)
          /\ MeanReversionStrategy_notify_order(o, st)
          /\ last_call' = Call("notify_order", FALSE, FALSE, o, st)
    /\ UNCHANGED <<data_log, uuid, run_pc, signalled, n_next, n_should_buy,
                   n_should_sell>>

\* A bug: the order placed is not tagged with the submission id.
SubmitUntagged(isbuy, id) ==
    Append(orders, [isbuy |-> isbuy, submission_id |-> None,
                    status |-> "Created", executed |-> 0])

\* self.buy() / self.sell(): the broker creates the order with the sizer's
\* stake and queues its Submitted notification; next() then tags the order.
Submit(isbuy, id) ==
    Append(orders, [isbuy |-> isbuy, submission_id |-> id,
                    status |-> "Created", executed |-> 0])

\* The size the sizer gave the order just created (order.created.size).
CreatedSize(isbuy) == IF isbuy THEN 2 ELSE 0 - 2

\* A bug: an id is generated only when none is set.
StaleSubmissionId ==
    IF current_submission_id # None THEN current_submission_id ELSE uuid + 1

\* uuid.uuid4().int: an id no earlier call returned.
NewSubmissionId == uuid + 1

\* A bug: a buy is placed whenever the run is flat, signal or not.
BuyBranchWithoutSignal(buy_signal) == position = 0

\* A bug: the buy branch does not look at the position.
BuyBranchAnyPosition(buy_signal) == buy_signal

\* The guard of the buy branch: not self.position and buy_signal.
BuyBranch(buy_signal) == position = 0 /\ buy_signal

\* A bug: the sell branch does not check the submission id.
SubmissionIdUnchecked == FALSE

\* The guard inside the sell branch: self.current_submission_id is None.
SubmissionIdMissing == current_submission_id = None

\* A bug: a bar without a submission logs nothing.
LogNothing == event_log

\* The else branch: event_log with a NoAction for this bar appended.
LogNoAction == Append(event_log, NoAction(Now))

\* A bug: a bar spent waiting for an order is logged as a NoAction.
LogNoActionWhilePending == Append(event_log, NoAction(Now))

\* if self.order: return -- nothing is logged on a bar with an order pending.
LogWhilePending == event_log

\* A bug: should_sell() is asked again in the sell branch.
ShouldSellCalledTwice == IF order # None THEN 0 ELSE 2

\* The calls next() makes of should_buy() on a bar, and of should_sell():
\* none when it returns early, one otherwise.
ShouldBuyCalls == IF order # None THEN 0 ELSE 1

ShouldSellCalls == IF order # None THEN 0 ELSE 1

\* A bug: the bar is logged after the test of the pending order.
SnapshotUnlessPending ==
    IF order # None THEN data_log ELSE Append(data_log, Now)

\* self.data_log.append({...}): the snapshot of the bar, kept as its
\* timestamp.
Snapshot == Append(data_log, Now)

\* BaseStrategy.next() on a bar where should_buy() answers buy_signal and
\* should_sell() answers sell_signal.
next(buy_signal, sell_signal) ==
    /\ data_log' = Snapshot
    /\ n_next' = n_next + 1
    /\ n_should_buy' = n_should_buy + ShouldBuyCalls
    /\ n_should_sell' = n_should_sell + ShouldSellCalls
    /\ IF order # None
         THEN /\ event_log' = LogWhilePending
              /\ UNCHANGED <<order, current_submission_id, orders,
                             uuid, run_pc, signalled>>
       ELSE IF BuyBranch(buy_signal)
         THEN /\ uuid' = uuid + 1
              /\ current_submission_id' = NewSubmissionId
              /\ orders' = Submit(TRUE, NewSubmissionId)
              /\ order' = Len(orders) + 1
              /\ event_log' = Append(event_log,
                     BuyOrderSubmission(Now, NewSubmissionId,
                                        CreatedSize(TRUE), ClosePrice,
                                        "buy_justification"))
              /\ signalled' = TRUE
              /\ UNCHANGED run_pc
       ELSE IF position # 0 /\ sell_signal
         THEN IF SubmissionIdMissing
                THEN \* raise ValueError("Submission ID is missing ...")
                     /\ run_pc' = "raised"
                     /\ signalled' = TRUE
                     /\ UNCHANGED <<event_log, order, current_submission_id,
                                    orders, uuid>>
                ELSE /\ orders' = Submit(FALSE, current_submission_id)
                     /\ order' = Len(orders) + 1
                     /\ event_log' = Append(event_log,
                            SellOrderSubmission(Now,
                                                current_submission_id,
                                                CreatedSize(FALSE), ClosePrice,
                                                "sell_justification"))
                     /\ signalled' = TRUE
                     /\ UNCHANGED <<current_submission_id, uuid, run_pc>>
       ELSE /\ event_log' = LogNoAction
            /\ signalled' = (signalled \/ buy_signal \/ sell_signal)
            /\ UNCHANGED <<order, current_submission_id, orders, uuid, run_pc>>
    /\ UNCHANGED <<entry_price, position>>

\* MeanReversionStrategy.should_buy(): the close is below the lower band.
should_buy(below_lower_band) == below_lower_band

\* The test of should_sell() for an entry price: the close is above the upper
\* band, or there is an entry price and the close has reached its stop-loss
\* or its take-profit level.
SellCondition(above_upper_band, stop_or_target, entry) ==
    \/ above_upper_band
    \/ entry # None /\ stop_or_target

\* MeanReversionStrategy.should_sell()
should_sell(above_upper_band, stop_or_target) ==
    SellCondition(above_upper_band, stop_or_target, entry_price)

\* The engine moves to the next bar and calls next().  The bar's close is
\* below the lower band or not, above the upper band or not, and at or beyond
\* a stop-loss or take-profit level of the entry price or not.
Bar ==
    /\ run_pc = "running"
    /\ Len(data_log) < MaxBars
    /\ n_next < MaxBars
    /\ \E below_lower_band \in BOOLEAN :
       \E above_upper_band \in BOOLEAN :
       \E stop_or_target \in BOOLEAN :
          LET buy_signal == should_buy(below_lower_band)
              sell_signal == should_sell(above_upper_band, stop_or_target)
          IN  /\ next(buy_signal, sell_signal)
              /\ last_call' = Call("next", buy_signal, sell_signal, None, "None")

\* The data feed is exhausted: cerebro.run() returns and run_coarse_backtest
\* returns its output dictionary.
EndOfData ==
    /\ run_pc = "running"
    /\ run_pc' = "returned"
    /\ UNCHANGED <<event_log, data_log, order, current_submission_id,
                   entry_price, position, orders, uuid, signalled, last_call,
                   n_next, n_should_buy, n_should_sell>>

----------------------------------------------------------------------------
\* optimize_strategy_params_on_backtest (src/autotrader/optimization.py).

\* A sampling specification, one value of the dict get_hyperparam_space returns.
ParamConfig(type, min, max, choices) ==
    [type |-> type, min |-> min, max |-> max, choices |-> choices]

IntParam       == ParamConfig("int", 1, 2, <<>>)
FloatParam     == ParamConfig("float", 1, 2, <<>>)
CategoricalParam == ParamConfig("categorical", 0, 0, <<1, 2>>)
MinAboveMax    == ParamConfig("float", 2, 1, <<>>)
EmptyChoices   == ParamConfig("categorical", 0, 0, <<>>)
UnknownType    == ParamConfig("bool", 0, 1, <<>>)

\* The hyperparameter spaces a strategy class may return, each in the order of
\* its dict: well-formed ones (the first has the shape of
\* MeanReversionStrategy's) and ones with an entry the spec calls invalid.
HyperparamSpaces ==
    { <<IntParam, FloatParam>>,
      <<CategoricalParam>>,
      <<IntParam, UnknownType>>,
      <<UnknownType>>,
      <<IntParam, MinAboveMax>>,
      <<MinAboveMax, IntParam>>,
      <<EmptyChoices>>,
      <<CategoricalParam, EmptyChoices>> }

\* The entries objective() asks the trial to suggest a value for.
Suggested(space) ==
    {i \in 1..Len(space) : space[i].type \in {"int", "float", "categorical"}}

\* The entries for which optuna refuses to build a distribution: suggest_int
\* and suggest_float raise ValueError when low > high, suggest_categorical
\* when there is no choice.
Refused(space) ==
    {i \in Suggested(space) :
        \/ space[i].type \in {"int", "float"} /\ space[i].min > space[i].max
        \/ space[i].type = "categorical" /\ space[i].choices = <<>>}

\* The values the sampler may propose for an entry.
Domain(c) ==
    IF c.type = "categorical"
      THEN {c.choices[j] : j \in 1..Len(c.choices)}
      ELSE {v \in {c.min, c.max} : c.min <= c.max}

Min(S) == CHOOSE x \in S : \A y \in S : x <= y

\* The initial portfolio value, cerebro.broker.getvalue() before the run.
Cash == 10000

\* The exceptions a backtest may raise: a fault of the engine, and the
\* ValueError of next().
BacktestErrors ==
    {"EngineError", "ValueError: Submission ID is missing for SellOrderSubmission."}

\* What one call of run_coarse_backtest may do: return an output whose final
\* portfolio value is one of a few, or raise (a fault of the engine, or the
\* ValueError of next()).
BacktestOutcomes ==
    {[raises |-> "None", final_portfolio |-> Cash + r] : r \in {0 - 3, 5}}
    \cup {[raises |-> e, final_portfolio |-> 0] : e \in BacktestErrors}

\* The run state of a strategy instance after BaseStrategy.__init__ and
\* MeanReversionStrategy.__init__.
StrategyInit ==
    [event_log |-> <<>>, data_log |-> <<>>, order |-> None,
     current_submission_id |-> None, entry_price |-> None]

\* The bars of the data feed on which the engine calls next(), by timestamp;
\* every trial runs over the same dataset.
RunBars == <<1, 2>>

\* cerebro.run() on a strategy whose run state is s: the strategy it returns.
\* Its data_log has one snapshot per bar after what was there; the rest of
\* what the run leaves is not kept.  initial is history: the run state the
\* strategy began the run with.
cerebro_run(s) == [initial |-> s, data_log |-> s.data_log \o RunBars]

EmptyDetails ==
    [params |-> <<>>, initial_portfolios |-> <<>>, final_portfolios |-> <<>>,
     returns |-> <<>>, relative_returns |-> <<>>, sharpe_ratio |-> <<>>,
     drawdown |-> <<>>, sqn |-> <<>>, data_logs |-> <<>>]

VARIABLES
    hyperparam_space,   \* strategy_class.get_hyperparam_space()
    n_trials,           \* the n_trials argument
    study_trials,       \* study.trials: the trials optuna has run
    trial_details,      \* the trial_details dict of lists
    trial_outputs,      \* the trial_outputs list
    results_df,         \* the rows of the results table, built on return
    opt_pc,             \* "idle" | "running" | "callback" | "returned" | "raised"
    opt_error,          \* the exception that left the call, "None" if none
    n_sampled,          \* history: values the sampler has proposed
    n_backtests,        \* history: calls of run_coarse_backtest
    optuna_callback,    \* the optuna_callback argument, "None" if not given
    callback_log,       \* history: what each call of the callback was shown
    top_trials          \* the caller's ranked view: row labels of results_df

optvars == <<hyperparam_space, n_trials, study_trials, trial_details,
             trial_outputs, results_df, opt_pc, opt_error, n_sampled,
             n_backtests, optuna_callback, callback_log, top_trials>>

\* A bug: data_log is kept on the class, so a trial's strategy starts with
\* what the strategy of the trial before it left there.
SharedStrategy ==
    IF trial_outputs = <<>>
      THEN StrategyInit
      ELSE [StrategyInit EXCEPT
               !.data_log =
                   trial_outputs[Len(trial_outputs)].output_strategy.data_log]

\* cerebro.addstrategy(strategy_class, **strategy_params): each run
\* instantiates the strategy class anew.
NewStrategy == StrategyInit

\* The output dictionary of run_coarse_backtest; the analysis results are
\* fixed by the run and kept abstract.
Output(out, params) ==
    [output_strategy |-> cerebro_run(NewStrategy),
     portfolio_info |-> [initial_portfolio |-> Cash,
                         final_portfolio |-> out.final_portfolio],
     params |-> params]

\* A bug: a list of trial_details is replaced by one holding the new value.
Replaced(list, value) == <<value>>

\* list.append(value)
Appended(list, value) == Append(list, value)

\* A bug: the output of a trial is put in front of the earlier ones.
OutputInserted(list, value) == <<value>> \o list

\* trial_outputs.append(output)
OutputAppended(list, value) == Append(list, value)

\* A mistaken objective: the final portfolio value, the initial one not
\* subtracted.
ObjectiveFinalValue(final_portfolio, initial_portfolio) == final_portfolio

\* The value objective() returns to the study.
ObjectiveValue(final_portfolio, initial_portfolio) ==
    final_portfolio - initial_portfolio

\* objective(trial): proposal maps each suggested entry to the value the
\* sampler proposes, fail_at is the entry at which the sampler fails (0: it
\* does not), out is what the backtest does.  The result tells what the call
\* raised (or "None"), the value returned, the two stores after the call, and
\* how many values were sampled and whether the backtest was run.
objective(proposal, fail_at, out) ==
    LET space   == hyperparam_space
        stops   == (Refused(space) \cup ({fail_at} \cap Suggested(space)))
        stop    == IF stops = {} THEN Len(space) + 1 ELSE Min(stops)
        sampled == {i \in Suggested(space) : i < stop}
        strategy_params == [i \in sampled |-> proposal[i]]
        portfolio_return == out.final_portfolio - Cash
    IN  IF stop <= Len(space)
          THEN [raised |-> IF stop \in Refused(space)
                             THEN "ValueError: distribution"
                             ELSE "SamplerError",
                value |-> 0, details |-> trial_details, outputs |-> trial_outputs,
                sampled |-> Cardinality(sampled), backtest |-> 0]
        ELSE IF out.raises # "None"
          THEN [raised |-> out.raises,
                value |-> 0, details |-> trial_details, outputs |-> trial_outputs,
                sampled |-> Cardinality(sampled), backtest |-> 1]
        ELSE [raised |-> "None",
              value |-> ObjectiveValue(out.final_portfolio, Cash),
              details |->
                 [trial_details EXCEPT
                    !.params = Appended(@, strategy_params),
                    !.initial_portfolios = Appended(@, Cash),
                    !.final_portfolios = Appended(@, out.final_portfolio),
                    !.data_logs =
                        Appended(@, Output(out, strategy_params)
                                        .output_strategy.data_log),
                    !.returns = Appended(@, portfolio_return),
                    !.relative_returns =
                        Appended(@, <<portfolio_return, Cash>>),
                    !.sharpe_ratio = Appended(@, "sharperatio"),
                    !.drawdown = Appended(@, "drawdown"),
                    !.sqn = Appended(@, "sqn")],
              outputs |-> OutputAppended(trial_outputs,
                                        Output(out, strategy_params)),
              sampled |-> Cardinality(sampled), backtest |-> 1]

\* The proposals a sampler can make for a space.
Proposals(space) ==
    {p \in [1..Len(space) -> {0, 1, 2}] :
        \A i \in 1..Len(space) :
            IF i \in Suggested(space) \ Refused(space)
              THEN p[i] \in Domain(space[i])
              ELSE p[i] = 0}

\* A study told to catch whatever a trial raises.
CatchEverything ==
    {"SamplerError", "ValueError: distribution"} \cup BacktestErrors

\* The exceptions study.optimize catches: its catch argument is left at its
\* default, the empty tuple.
Catch == {}

\* A study created with optuna's default direction.
DefaultDirection == "minimize"

\* The direction the study is created with.
StudyDirection == "maximize"

\* A call of study.optimize that is passed no callback.
NoCallbacks == <<>>

\* callbacks = [optuna_callback] if optuna_callback is not None else []
callbacks ==
    IF optuna_callback # "None" THEN <<optuna_callback>> ELSE <<>>

\* Where study.optimize goes after a trial that did not end the call.
AfterTrial == IF callbacks = <<>> THEN "running" ELSE "callback"

\* One round of study.optimize(objective, n_trials, callbacks): optuna runs
\* objective on a new trial.  It stores the trial as COMPLETE with the value
\* returned, or, objective having raised, as FAIL, and then raises the same
\* exception out of study.optimize unless its type is caught.  After a trial
\* that did not raise, the callbacks are called before the next trial.
StudyRunTrial(proposal, fail_at, out) ==
    LET r == objective(proposal, fail_at, out)
        number == Len(study_trials)
    IN  /\ trial_details' = r.details
        /\ trial_outputs' = r.outputs
        /\ n_sampled' = n_sampled + r.sampled
        /\ n_backtests' = n_backtests + r.backtest
        /\ IF r.raised = "None"
             THEN /\ study_trials' = Append(study_trials,
                         [number |-> number, state |-> "COMPLETE",
                          value |-> r.value, error |-> "None"])
                  /\ opt_pc' = AfterTrial
                  /\ UNCHANGED opt_error
             ELSE /\ study_trials' = Append(study_trials,
                         [number |-> number, state |-> "FAIL",
                          value |-> None, error |-> r.raised])
                  /\ IF r.raised \in Catch
                       THEN /\ opt_pc' = AfterTrial
                            /\ UNCHANGED opt_error
                       ELSE /\ opt_pc' = "raised"
                            /\ opt_error' = r.raised
        /\ UNCHANGED <<hyperparam_space, n_trials, results_df, optuna_callback,
                       callback_log, top_trials>>

Trial ==
    /\ opt_pc = "running"
    /\ Len(study_trials) < n_trials
    /\ \E proposal \in Proposals(hyperparam_space) :
       \E fail_at \in 0..Len(hyperparam_space) :
       \E out \in BacktestOutcomes :
          StudyRunTrial(proposal, fail_at, out)

Max(S) == CHOOSE x \in S : \A y \in S : y <= x

\* The trials of a study that are COMPLETE.
Complete(trials) == {i \in 1..Len(trials) : trials[i].state = "COMPLETE"}

\* study.best_trial: among the COMPLETE trials the first whose value is the
\* largest (the smallest for a study that minimizes).
BestTrial(trials) ==
    LET values == {trials[i].value : i \in Complete(trials)}
        best == IF StudyDirection = "maximize" THEN Max(values) ELSE Min(values)
    IN  trials[Min({i \in Complete(trials) : trials[i].value = best})]

\* study.best_value
BestValue(trials) == BestTrial(trials).value

\* progress_callback(study, frozen_trial), the callback of the optimization
\* page: it shows the progress frozen_trial.number / n_trials and
\* study.best_value, which raises ValueError while no trial is COMPLETE.
\* callback_log keeps what it showed, and how many records and proposals
\* there were when it was called.
progress_callback ==
    LET frozen_trial == study_trials[Len(study_trials)]
    IN  IF Complete(study_trials) = {}
          THEN /\ opt_pc' = "raised"
               /\ opt_error' = "ValueError: No trials are completed yet."
               /\ UNCHANGED callback_log
          ELSE /\ callback_log' = Append(callback_log,
                      [number |-> frozen_trial.number,
                       opt_progress |-> <<frozen_trial.number, n_trials>>,
                       best_value |-> BestValue(study_trials),
                       records |-> Len(trial_details.returns),
                       sampled |-> n_sampled])
               /\ opt_pc' = "running"
               /\ UNCHANGED opt_error

\* study.optimize calls the callback after a trial.
Callback ==
    /\ opt_pc = "callback"
    /\ progress_callback
    /\ UNCHANGED <<hyperparam_space, n_trials, study_trials, trial_details,
                   trial_outputs, results_df, n_sampled, n_backtests,
                   optuna_callback, top_trials>>

\* pd.DataFrame(data_log): a table with one row per snapshot of the log.
DataFrame(log) ==
    [columns |-> <<"timestamp", "open", "high", "low", "close", "volume">>,
     index |-> [i \in DOMAIN log |-> i - 1],
     rows |-> log]

\* trial_details after trial_details["data_logs_df"] = [...]: the dict with
\* one more key, the data log of each trial as a DataFrame.
WithDataFrames(details) ==
    [key \in DOMAIN details \cup {"data_logs_df"} |->
        IF key = "data_logs_df"
          THEN [i \in DOMAIN details.data_logs |->
                   DataFrame(details.data_logs[i])]
          ELSE details[key]]

\* After study.optimize has returned: the data logs are converted, the
\* results DataFrame is built from range(n_trials) and the per-trial lists
\* (pandas raises ValueError when the columns differ in length), and the
\* dictionary is returned.
BuildResults ==
    /\ opt_pc = "running"
    /\ Len(study_trials) = n_trials
    /\ IF /\ Len(trial_details.params) = n_trials
          /\ Len(trial_details.initial_portfolios) = n_trials
          /\ Len(trial_details.final_portfolios) = n_trials
          /\ Len(trial_details.returns) = n_trials
          /\ Len(trial_details.relative_returns) = n_trials
         THEN /\ results_df' =
                    [i \in 1..n_trials |->
                        [trial_number |-> i - 1,
                         params |-> trial_details.params[i],
                         initial_portfolio |-> trial_details.initial_portfolios[i],
                         final_portfolio |-> trial_details.final_portfolios[i],
                         portfolio_return |-> trial_details.returns[i],
                         relative_portfolio_return |->
                             trial_details.relative_returns[i]]]
              /\ opt_pc' = "returned"
              /\ UNCHANGED opt_error
         ELSE /\ opt_pc' = "raised"
              /\ opt_error' = "ValueError: arrays"
              /\ UNCHANGED results_df
    /\ trial_details' = WithDataFrames(trial_details)
    /\ UNCHANGED <<hyperparam_space, n_trials, study_trials, trial_outputs,
                   n_sampled, n_backtests, optuna_callback, callback_log,
                   top_trials>>

\* The dictionary optimize_strategy_params_on_backtest returns.
ReturnValue ==
    [study |-> study_trials,
     trial_details |-> trial_details,
     results_df |-> results_df,
     trial_outputs |-> trial_outputs]

\* The entries the results views read from the dictionary returned: the
\* optimization page study, trial_details and results_df, the script in
\* addition trial_outputs.
ViewReads == {"study", "trial_details", "results_df", "trial_outputs"}

\* The entries of trial_details the optimization page reads to plot the best
\* trial.
ViewReadsOfDetails == {"event_logs_df", "data_logs_df"}


RowOrders(n) ==
    {p \in [1..n -> 1..n] : \A i, j \in 1..n : i # j => p[i] # p[j]}

\* df.nlargest(len(df), "portfolio_return"): the orders it may put the rows
\* of df in.  With n = len(df) pandas sorts the column by sort_values with
\* descending order and the default kind, quicksort, which is not stable:
\* the rows come in descending portfolio_return, rows with equal values in
\* an order the sort is free to choose.
nlargest(df) ==
    {p \in RowOrders(Len(df)) :
        \A k \in 1..(Len(df) - 1) :
            df[p[k]].portfolio_return >= df[p[k + 1]].portfolio_return}

\* The caller ranks the trials of the table it was returned:
\* top_trials = results_df.nlargest(len(results_df), "portfolio_return").
\* top_trials keeps the row labels in the ranked order.
RankTrials ==
    /\ opt_pc = "returned"
    /\ top_trials = <<>>
    /\ results_df # <<>>
    /\ \E p \in nlargest(results_df) :
          top_trials' = [k \in 1..Len(p) |-> results_df[p[k]].trial_number]
    /\ UNCHANGED <<hyperparam_space, n_trials, study_trials, trial_details,
                   trial_outputs, results_df, opt_pc, opt_error, n_sampled,
                   n_backtests, optuna_callback, callback_log>>

\* No optimization is under way (a single backtest run).
OptIdle ==
    /\ hyperparam_space = <<>>
    /\ n_trials = 0
    /\ study_trials = <<>>
    /\ trial_details = EmptyDetails
    /\ trial_outputs = <<>>
    /\ results_df = <<>>
    /\ opt_pc = "idle"
    /\ opt_error = "None"
    /\ n_sampled = 0
    /\ n_backtests = 0
    /\ optuna_callback = "None"
    /\ callback_log = <<>>
    /\ top_trials = <<>>

\* The call optimize_strategy_params_on_backtest(..., strategy_class, n_trials)
\* up to the creation of the study.
InitOpt ==
    /\ hyperparam_space \in HyperparamSpaces
    /\ n_trials \in 0..MaxTrials
    /\ study_trials = <<>>
    /\ trial_details = EmptyDetails
    /\ trial_outputs = <<>>
    /\ results_df = <<>>
    /\ opt_pc = "running"
    /\ opt_error = "None"
    /\ n_sampled = 0
    /\ n_backtests = 0
    /\ optuna_callback \in {"None", "progress_callback"}
    /\ callback_log = <<>>
    /\ top_trials = <<>>

----------------------------------------------------------------------------
\* Event.__str__ (src/autotrader/events.py).  A string is the sequence of its
\* pieces of text: the characters "," and " " one by one, any other text that
\* holds neither of them as one piece.

MaxLen == 4

\* The characters a free-form justification is written with.
Chars == {"a", ",", " "}

Strings == UNION {[1..n -> Chars] : n \in 0..MaxLen}

\* The values of a justification: None, or a string.
Justifications ==
    {[is_none |-> TRUE, text |-> <<>>]}
        \cup {[is_none |-> FALSE, text |-> s] : s \in Strings}

OrderTypes == SubmissionTypes \cup ExecutionTypes

\* The events __str__ is applied to: each variant, with each justification.
Renderable ==
    {[type |-> "NoAction", timestamp |-> 1, justification |-> j] :
        j \in Justifications}
    \cup {[type |-> ty, timestamp |-> 1, justification |-> j,
           submission_id |-> 1, size |-> 2, ref_price |-> 2] :
             ty \in OrderTypes, j \in Justifications}
    \cup {[type |-> ty, timestamp |-> 1, submission_id |-> 1,
           justification |-> j] :
             ty \in RejectionTypes, j \in Justifications}

\* str(value) of a field, as f"{value}" formats it: None, a string, an int,
\* a float with an integral value.
Format(key, value) ==
    CASE key = "justification" ->
             IF value.is_none THEN <<"None">> ELSE value.text
      [] key = "ref_price" -> <<ToString(value), ".0">>
      [] OTHER -> <<ToString(value)>>

\* self.timestamp.isoformat()
isoformat(t) == <<"T", ToString(t)>>

\* self.model_dump().items(): the fields in the order the classes declare
\* them, each with its value.
model_dump(e) ==
    CASE e.type = "NoAction" ->
             << <<"timestamp", e.timestamp>>,
                <<"justification", e.justification>> >>
      [] e.type \in OrderTypes ->
             << <<"timestamp", e.timestamp>>,
                <<"justification", e.justification>>,
                <<"submission_id", e.submission_id>>,
                <<"size", e.size>>,
                <<"ref_price", e.ref_price>> >>
      [] OTHER ->
             << <<"timestamp", e.timestamp>>,
                <<"submission_id", e.submission_id>>,
                <<"justification", e.justification>> >>

\* The separator ", ".
Separator == <<",", " ">>

\* separator.join(parts)
RECURSIVE join(_)
join(parts) ==
    IF parts = <<>> THEN <<>>
    ELSE IF Len(parts) = 1 THEN parts[1]
    ELSE parts[1] \o Separator \o join(Tail(parts))

\* The text s starts with the separator.
AtSeparator(s) == Len(s) >= 2 /\ s[1] = "," /\ s[2] = " "

\* s.split(", "), current being the part read so far.
RECURSIVE split(_, _)
split(s, current) ==
    IF s = <<>> THEN <<current>>
    ELSE IF AtSeparator(s)
      THEN <<current>> \o split(SubSeq(s, 3, Len(s)), <<>>)
    ELSE split(Tail(s), Append(current, s[1]))

\* The place of a piece of text in the order of Python's strings, which is
\* that of the code point of its first character; no piece begins another.
Rank(piece) ==
    CASE piece = " "  -> 1
      [] piece = ","  -> 2
      [] piece = ".0" -> 3
      [] piece = "1"  -> 4
      [] piece = "2"  -> 5
      [] piece = "="  -> 6
      [] piece = "None" -> 7
      [] piece = "a"  -> 8
      [] piece = "justification" -> 9
      [] piece = "ref_price" -> 10
      [] piece = "size" -> 11
      [] piece = "submission_id" -> 12
      [] OTHER -> 13

\* s < t as Python compares strings.
RECURSIVE StrLess(_, _)
StrLess(s, t) ==
    IF t = <<>> THEN FALSE
    ELSE IF s = <<>> THEN TRUE
    ELSE IF s[1] # t[1] THEN Rank(s[1]) < Rank(t[1])
    ELSE StrLess(Tail(s), Tail(t))

\* sorted(parts): each part is put into the sorted rest, after the parts that
\* are not greater.
RECURSIVE insert(_, _)
insert(x, parts) ==
    IF parts = <<>> THEN <<x>>
    ELSE IF StrLess(x, parts[1]) THEN <<x>> \o parts
    ELSE <<parts[1]>> \o insert(x, Tail(parts))

RECURSIVE sorted(_)
sorted(parts) ==
    IF parts = <<>> THEN <<>>
    ELSE insert(parts[Len(parts)], sorted(SubSeq(parts, 1, Len(parts) - 1)))

\* f"{key}={value}"
KeyValue(key, value) == <<key, "=">> \o Format(key, value)

\* Event.__str__
Event_str(e) ==
    LET items == SelectSeq(model_dump(e), LAMBDA kv : kv[1] # "timestamp")
        attributes == join([i \in DOMAIN items |->
                               KeyValue(items[i][1], items[i][2])])
        reordered == join(sorted(split(attributes, <<>>)))
    IN  <<e.type, "(", "t", "=">> \o isoformat(e.timestamp) \o Separator
            \o reordered \o <<")">>

VARIABLES
    event,      \* the event str() is applied to
    rendered,   \* str(event), the empty text before the call
    str_pc      \* "idle" | "called" | "returned"

strvars == <<event, rendered, str_pc>>

\* str(event)
Render ==
    /\ str_pc = "called"
    /\ rendered' = Event_str(event)
    /\ str_pc' = "returned"
    /\ UNCHANGED event

\* No event is being rendered.
StrIdle ==
    /\ event = NoAction(1)
    /\ rendered = <<>>
    /\ str_pc = "idle"

\* str() is called on an event.
InitStr ==
    /\ event \in Renderable
    /\ rendered = <<>>
    /\ str_pc = "called"

----------------------------------------------------------------------------
\* The default sampler of optimize_strategy_params_on_backtest.  The default
\* of the sampler argument, GPSampler(seed=10), is evaluated once, when the
\* function is defined: every call that passes no sampler uses that one
\* object.  A seeded sampler draws its proposals from a pseudo-random
\* generator, here a Lehmer generator: each draw moves the generator to its
\* next state and the value proposed is computed from that state.

Seed == 10

Modulus == 7

Multiplier == 3

\* The state of a generator just seeded.
Seeded == Seed % Modulus

\* The state of the generator after one more draw.
NextRandom(x) == (Multiplier * x) % Modulus

\* The state of a generator in state x after n draws.
RECURSIVE RngAfter(_, _)
RngAfter(x, n) == IF n = 0 THEN x ELSE RngAfter(NextRandom(x), n - 1)

\* The value of the domain of entry c a generator in state x yields.
Pick(c, x) ==
    IF c.type = "categorical"
      THEN c.choices[(x % Len(c.choices)) + 1]
      ELSE IF x % 2 = 0 THEN c.min ELSE c.max

\* The entries objective() gets a value for from the sampler, in a trial the
\* sampler does not fail in: those before the first one optuna refuses.
Drawn(space) ==
    {i \in Suggested(space) : \A j \in Refused(space) : i < j}

\* What the sampler whose generator is in state x proposes for a trial: one
\* draw for each entry, in the order of the space.
Propose(space, x) ==
    [i \in 1..Len(space) |->
        IF i \in Drawn(space)
          THEN Pick(space[i],
                    RngAfter(x, Cardinality({j \in Drawn(space) : j <= i})))
          ELSE 0]

VARIABLES
    sampler_rng,    \* the generator state of the default sampler object
    call,           \* which call of the function is under way: 1 or 2
    proposed        \* history: the proposals of the trials of each call

samplervars == <<sampler_rng, call, proposed>>

\* The module has been imported: the default sampler is just seeded.
InitSampler ==
    /\ sampler_rng = Seeded
    /\ call = 1
    /\ proposed = << <<>>, <<>> >>

\* The generator state of the sampler a call without a sampler argument
\* uses: that of the one default object, as the calls before left it.
DefaultSampler == sampler_rng

\* One round of study.optimize in a call that passes no sampler: the
\* proposal of the trial is drawn from the default sampler.
DefaultSamplerTrial ==
    /\ opt_pc = "running"
    /\ Len(study_trials) < n_trials
    /\ LET x == DefaultSampler
           proposal == Propose(hyperparam_space, x)
       IN  /\ \E out \in BacktestOutcomes : StudyRunTrial(proposal, 0, out)
           /\ sampler_rng' =
                  RngAfter(x, Cardinality(Drawn(hyperparam_space)))
           /\ proposed' = [proposed EXCEPT ![call] = Append(@, proposal)]
    /\ UNCHANGED call

\* The first call has returned; the function is called again in the same
\* process with the same arguments.
CallAgain ==
    /\ opt_pc = "returned"
    /\ call = 1
    /\ call' = 2
    /\ study_trials' = <<>>
    /\ trial_details' = EmptyDetails
    /\ trial_outputs' = <<>>
    /\ results_df' = <<>>
    /\ opt_pc' = "running"
    /\ n_sampled' = 0
    /\ n_backtests' = 0
    /\ callback_log' = <<>>
    /\ UNCHANGED <<hyperparam_space, n_trials, opt_error, optuna_callback,
                   top_trials, sampler_rng, proposed>>

----------------------------------------------------------------------------
vars == <<runvars, optvars, strvars, samplervars>>

\* One strategy run.
Init == InitRun /\ OptIdle /\ StrIdle /\ InitSampler

Next ==
    \/ Bar /\ UNCHANGED <<optvars, strvars, samplervars>>
    \/ NotifyOrder /\ UNCHANGED <<optvars, strvars, samplervars>>
    \/ EndOfData /\ UNCHANGED <<optvars, strvars, samplervars>>

Spec == Init /\ [][Next]_vars

\* One call of optimize_strategy_params_on_backtest.
InitOptimize == InitRun /\ InitOpt /\ StrIdle /\ InitSampler

NextOptimize ==
    \/ Trial /\ UNCHANGED <<runvars, strvars, samplervars>>
    \/ Callback /\ UNCHANGED <<runvars, strvars, samplervars>>
    \/ BuildResults /\ UNCHANGED <<runvars, strvars, samplervars>>
    \/ RankTrials /\ UNCHANGED <<runvars, strvars, samplervars>>

SpecOpt == InitOptimize /\ [][NextOptimize]_vars

\* str() of one event.
InitRender == InitRun /\ OptIdle /\ InitStr /\ InitSampler

NextRender == Render /\ UNCHANGED <<runvars, optvars, samplervars>>

SpecStr == InitRender /\ [][NextRender]_vars

\* Two successive calls of optimize_strategy_params_on_backtest in one
\* process, with the same arguments and no sampler argument.
NextCalls ==
    \/ DefaultSamplerTrial /\ UNCHANGED <<runvars, strvars>>
    \/ Callback /\ UNCHANGED <<runvars, strvars, samplervars>>
    \/ BuildResults /\ UNCHANGED <<runvars, strvars, samplervars>>
    \/ CallAgain /\ UNCHANGED <<runvars, strvars>>

SpecCalls == InitOptimize /\ [][NextCalls]_vars

----------------------------------------------------------------------------
\* Properties of one strategy run (specification Spec).

Events == DOMAIN event_log

IsResolution(e) == e.type \in ExecutionTypes \cup RejectionTypes

\* The type of the Submission event of an event's direction.
SubmissionOf(e) ==
    IF e.type \in {"BuyOrderExecution", "BuyOrderRejection"}
      THEN "BuyOrderSubmission"
      ELSE "SellOrderSubmission"

\* The events before position i that have one of the types and the id.
Earlier(i, types, id) ==
    {j \in 1..(i - 1) : /\ event_log[j].type \in types
                        /\ event_log[j].submission_id = id}

\* C1, as claimed: every Execution and Rejection event has the submission_id
\* of exactly one Submission event earlier in event_log.
C1_ExactlyOneSubmission ==
    \A i \in Events :
        IsResolution(event_log[i]) =>
            Cardinality(Earlier(i, SubmissionTypes, event_log[i].submission_id)) = 1

\* C1, amended: every Execution and Rejection event has the submission_id of
\* exactly one earlier BuyOrderSubmission and of at least one earlier
\* Submission event of its own direction (a sell carries the id of a buy).
C1_ReferentialIntegrity ==
    \A i \in Events :
        IsResolution(event_log[i]) =>
            LET id == event_log[i].submission_id
            IN  /\ Cardinality(Earlier(i, {"BuyOrderSubmission"}, id)) = 1
                /\ Earlier(i, {SubmissionOf(event_log[i])}, id) # {}

\* A run with a rejected order and a completed sell.
C1_Witness ==
    /\ \E i \in Events : event_log[i].type = "SellOrderExecution"
    /\ \E i \in Events : event_log[i].type \in RejectionTypes

\* C2, as claimed: any two distinct Submission events, of the same or of
\* different direction, have different submission ids.
C2_AllSubmissionIdsDistinct ==
    \A i, j \in Events :
        /\ i # j
        /\ event_log[i].type \in SubmissionTypes
        /\ event_log[j].type \in SubmissionTypes
        => event_log[i].submission_id # event_log[j].submission_id

\* C2, amended: any two distinct BuyOrderSubmission events have different
\* submission ids, and every SellOrderSubmission has the id of an earlier
\* BuyOrderSubmission.
C2_BuySubmissionIdsDistinct ==
    /\ \A i, j \in Events :
          /\ i # j
          /\ event_log[i].type = "BuyOrderSubmission"
          /\ event_log[j].type = "BuyOrderSubmission"
          => event_log[i].submission_id # event_log[j].submission_id
    /\ \A i \in Events :
          event_log[i].type = "SellOrderSubmission" =>
              Earlier(i, {"BuyOrderSubmission"}, event_log[i].submission_id) # {}

\* A run with two buy submissions and a sell submission.
C2_Witness ==
    /\ \E i, j \in Events :
          /\ i < j
          /\ event_log[i].type = "BuyOrderSubmission"
          /\ event_log[j].type = "BuyOrderSubmission"
    /\ \E i \in Events : event_log[i].type = "SellOrderSubmission"

\* C3, as claimed: at most one submitted order is unresolved, whatever the
\* interleaving of bars and notifications (so next() never submits while an
\* earlier order is unresolved).
C3_AtMostOneUnresolvedOrder == Cardinality(Unresolved) <= 1

SellBranchStep ==
    /\ data_log' # data_log
    /\ last_call'.op = "next"
    /\ last_call'.sell_signal
    /\ position # 0
    /\ order = None

\* The step raises, and produces neither a sell order nor an event.
RaisesWithoutSell ==
    /\ run_pc' = "raised"
    /\ orders' = orders
    /\ event_log' = event_log

\* C5, as claimed: next() in the sell branch while entry_price is null raises
\* and produces neither a sell order nor a SellOrderSubmission.
C5_NullEntryPriceRaises ==
    [][SellBranchStep /\ entry_price = None => RaisesWithoutSell]_vars

\* C5, amended: next() in the sell branch while current_submission_id is null
\* raises and produces neither a sell order nor a SellOrderSubmission.
C5_NullSubmissionIdRaises ==
    [][SellBranchStep /\ current_submission_id = None => RaisesWithoutSell]_vars

\* next() has raised in the sell branch with no submission id.
C5_Witness ==
    /\ run_pc = "raised"
    /\ last_call.op = "next"
    /\ last_call.sell_signal
    /\ position # 0
    /\ order = None
    /\ current_submission_id = None

\* C8: as long as should_buy and should_sell have answered False on every
\* bar, event_log holds one NoAction per bar on which next() ran and nothing
\* else.
C8_FlatSignalsOnlyNoAction ==
    ~signalled =>
        /\ Len(event_log) = Len(data_log)
        /\ \A i \in Events : event_log[i].type = "NoAction"

\* A run of MaxBars bars without any signal that has ended.
C8_Witness ==
    /\ ~signalled
    /\ Len(data_log) = MaxBars
    /\ Len(event_log) = MaxBars
    /\ run_pc = "returned"

\* C9, as claimed: run_coarse_backtest does not return a normal result while
\* a submitted order is unresolved at the end of the data feed.
C9_NoReturnWithUnresolvedOrder ==
    run_pc = "returned" => Unresolved = {}

----------------------------------------------------------------------------
\* Properties of one optimization (specification SpecOpt).

\* The call has ended, by returning or by raising.
OptEnded == opt_pc \in {"returned", "raised"}

\* C6, as claimed: a trial whose backtest raised is recorded as failed and
\* the loop goes on to the remaining trials instead of raising.
C6_FailureIsolation ==
    \A i \in DOMAIN study_trials :
        study_trials[i].error \in BacktestErrors =>
            /\ study_trials[i].state = "FAIL"
            /\ opt_pc # "raised"

\* C7, as claimed: once the call has ended without a configuration or sampler
\* error, the results table holds one record per requested trial, numbered
\* 0..n_trials-1, whether the trial succeeded or failed.
C7_EveryTrialRecorded ==
    OptEnded /\ opt_error \notin {"ValueError: distribution", "SamplerError"} =>
        /\ opt_pc = "returned"
        /\ Len(results_df) = n_trials
        /\ \A i \in DOMAIN results_df : results_df[i].trial_number = i - 1

\* An entry the spec calls invalid: unknown type tag, min above max, or no
\* categorical choice.
InvalidEntry(c) ==
    \/ c.type \notin {"int", "float", "categorical"}
    \/ c.type \in {"int", "float"} /\ c.min > c.max
    \/ c.type = "categorical" /\ c.choices = <<>>

\* C10, as claimed: with an invalid entry in the space no trial starts: no
\* parameter is sampled, no backtest is run, no trial record is stored.
C10_InvalidSpaceStartsNoTrial ==
    (\E i \in DOMAIN hyperparam_space : InvalidEntry(hyperparam_space[i])) =>
        /\ n_sampled = 0
        /\ n_backtests = 0
        /\ study_trials = <<>>
        /\ trial_outputs = <<>>

\* C11: a failure of the sampler in trial k ends the call: the trial is the
\* last one the study has, no backtest was run for it, the call has raised
\* the sampler's error, and nothing the call keeps changes afterwards.
C11_SamplerErrorEndsCall ==
    /\ [](\A i \in DOMAIN study_trials :
            study_trials[i].error = "SamplerError"
                => /\ i = Len(study_trials)
                   /\ opt_pc = "raised"
                   /\ opt_error = "SamplerError"
                   /\ n_backtests = i - 1)
    /\ [][opt_pc = "raised" => UNCHANGED optvars]_vars

\* The sampler failed in a trial after the first, with trials left to run.
C11_Witness ==
    /\ Len(study_trials) >= 2
    /\ Len(study_trials) < n_trials
    /\ study_trials[Len(study_trials)].error = "SamplerError"
    /\ opt_pc = "raised"

\* The rows of the ranked view, by position.
Ranked == DOMAIN top_trials

C14_ObjectiveIsPortfolioReturn ==
    /\ StudyDirection = "maximize"
    /\ \A i \in Complete(study_trials) :
          /\ i <= Len(trial_details.returns)
          /\ i <= Len(trial_outputs)
          /\ study_trials[i].value =
                trial_details.final_portfolios[i]
                    - trial_details.initial_portfolios[i]
          /\ study_trials[i].value =
                trial_outputs[i].portfolio_info.final_portfolio
                    - trial_outputs[i].portfolio_info.initial_portfolio
          /\ study_trials[i].value = trial_details.returns[i]

\* Two trials have returned, one with a loss and one with a gain.
C14_Witness ==
    /\ Len(study_trials) >= 2
    /\ Complete(study_trials) = DOMAIN study_trials
    /\ \E i, j \in DOMAIN study_trials :
          study_trials[i].value < 0 /\ study_trials[j].value > 0

\* v is the largest value of the first n trials, and one of them has it.
IsMaxOfFirst(v, n) ==
    /\ 1..n \subseteq Complete(study_trials)
    /\ \A i \in 1..n : study_trials[i].value <= v
    /\ \E i \in 1..n : study_trials[i].value = v

\* C15: the best value the callback sees after trial k is the largest of the
\* objective values of trials 0..k, and once the call has returned the
\* study's best value is the largest of all trials' values and the value of
\* the study's best trial, which is one of the trials.
C15_BestValueIsRunningMaximum ==
    /\ \A j \in DOMAIN callback_log :
          /\ callback_log[j].number + 1 <= Len(study_trials)
          /\ IsMaxOfFirst(callback_log[j].best_value, callback_log[j].number + 1)
    /\ (opt_pc = "returned" /\ study_trials # <<>>) =>
          /\ IsMaxOfFirst(BestValue(study_trials), Len(study_trials))
          /\ \E i \in DOMAIN study_trials :
                /\ BestTrial(study_trials) = study_trials[i]
                /\ study_trials[i].value = BestValue(study_trials)

\* The call has returned after two trials with a callback, the first a gain
\* and the second a loss: the best value shown after the second is the first's.
C15_Witness ==
    /\ opt_pc = "returned"
    /\ Len(callback_log) >= 2
    /\ study_trials[1].value > 0
    /\ study_trials[2].value < 0
    /\ callback_log[2].best_value = study_trials[1].value

\* C16: with a callback, the j-th call of it is for trial j - 1, is made when
\* the study has j records and the sampler has proposed the values of j
\* trials only, and every trial that has returned has had its call before
\* the next trial starts; without one nothing is called.  A call of the
\* callback changes neither the study's trials nor the records, so they are
\* what they are without it.
C16_CallbackOncePerTrialInOrder ==
    /\ [](IF optuna_callback = "None"
            THEN callback_log = <<>> /\ opt_pc # "callback"
            ELSE /\ \A j \in DOMAIN callback_log :
                       /\ callback_log[j].number = j - 1
                       /\ callback_log[j].records = j
                       /\ callback_log[j].sampled =
                             j * Cardinality(Suggested(hyperparam_space))
                 /\ Len(callback_log) =
                       Cardinality(Complete(study_trials))
                           - (IF opt_pc = "callback" THEN 1 ELSE 0)
                 /\ opt_pc \in {"running", "returned"}
                       => Len(callback_log) = Len(study_trials))
    /\ [][opt_pc = "callback"
            => /\ Len(callback_log') = Len(callback_log) + 1
               /\ UNCHANGED <<study_trials, trial_details, trial_outputs,
                              results_df, n_sampled, n_backtests>>]_vars

\* The callback has been called after each of three trials and the call has
\* returned.
C16_Witness ==
    /\ optuna_callback # "None"
    /\ opt_pc = "returned"
    /\ Len(callback_log) = MaxTrials
    /\ Len(study_trials) = MaxTrials

\* A step of next() taken while no order is pending.
NextStepNoOrder ==
    /\ data_log' # data_log
    /\ last_call'.op = "next"
    /\ order = None

\* The step appends exactly one event, of the given type.
AppendsOne(type) ==
    /\ Len(event_log') = Len(event_log) + 1
    /\ SubSeq(event_log', 1, Len(event_log)) = event_log
    /\ event_log'[Len(event_log')].type = type

UsedSubmissionIds ==
    {orders[o].submission_id : o \in Handles}
        \cup {event_log[i].submission_id :
                i \in {j \in Events : event_log[j].type # "NoAction"}}

\* C18: next() run flat, with no order pending and a true buy signal,
\* whatever the sell signal, takes a submission id used nowhere earlier in
\* the run, places one order, a buy tagged with that id, appends exactly one
\* event, the BuyOrderSubmission with that id and the buy justification, and
\* leaves that order pending.
C18_BuyFromFlat ==
    [][NextStepNoOrder /\ position = 0 /\ last_call'.buy_signal =>
         LET id == current_submission_id'
             o  == Len(orders')
         IN  /\ id # None
             /\ id \notin UsedSubmissionIds
             /\ Len(orders') = Len(orders) + 1
             /\ SubSeq(orders', 1, Len(orders)) = orders
             /\ orders'[o].isbuy
             /\ orders'[o].submission_id = id
             /\ orders'[o].status = "Created"
             /\ event_log' = Append(event_log,
                    BuyOrderSubmission(Now, id, CreatedSize(TRUE), ClosePrice,
                                       "buy_justification"))
             /\ order' = o
             /\ run_pc' = "running"]_vars

\* A second buy has just been submitted from flat on a bar where the sell
\* signal was true as well.
C18_Witness ==
    /\ last_call.op = "next"
    /\ last_call.buy_signal
    /\ last_call.sell_signal
    /\ order # None
    /\ orders[order].isbuy
    /\ \E i \in Events : event_log[i].type = "SellOrderExecution"
    /\ event_log[Len(event_log)].type = "BuyOrderSubmission"

\* A step in which notify_order is called with status st.
NotifyStep(st) ==
    /\ data_log' = data_log
    /\ orders' # orders
    /\ last_call'.op = "notify_order"
    /\ last_call'.status = st

\* The Execution event of order o completed at this bar.
ExecutionOf(o) ==
    IF orders[o].isbuy
      THEN BuyOrderExecution(Now, orders[o].submission_id, ExecPrice,
                             CreatedSize(TRUE))
      ELSE SellOrderExecution(Now, orders[o].submission_id, ExecPrice,
                              CreatedSize(FALSE))

\* C19, as claimed: notify_order called with Completed for an order appends
\* exactly one event, the Execution event of the order's direction with the
\* order's submission id and the executed price and size, and clears the
\* pending order; after it a position is held if the order is a buy (LONG)
\* and none is held if it is a sell (FLAT).
C19_CompletedAppendsExecution ==
    [][NotifyStep("Completed") =>
         LET o == last_call'.order
         IN  /\ event_log' = Append(event_log, ExecutionOf(o))
             /\ order' = None
             /\ IF orders[o].isbuy THEN position' # 0 ELSE position' = 0]_vars

\* The statuses notify_order logs as a rejection.
RejectionStatuses == {"Canceled", "Margin", "Rejected"}

\* The step appends exactly one event, of the given type and submission id.
AppendsOneFor(type, id) ==
    /\ AppendsOne(type)
    /\ event_log'[Len(event_log')].submission_id = id

\* C20, as claimed: notify_order called with Canceled, Margin or Rejected for
\* an order appends exactly one event, the Rejection event of the order's
\* direction with the order's submission id, clears the pending order and
\* leaves the position and entry_price unchanged; after it no position is
\* held if the order is a buy (FLAT) and one is held if it is a sell (LONG).
C20_RejectionAppendsRejection ==
    [][(\E st \in RejectionStatuses : NotifyStep(st)) =>
         LET o == last_call'.order
         IN  /\ AppendsOneFor(IF orders[o].isbuy THEN "BuyOrderRejection"
                                                ELSE "SellOrderRejection",
                              orders[o].submission_id)
             /\ order' = None
             /\ position' = position
             /\ entry_price' = entry_price
             /\ IF orders[o].isbuy THEN position' = 0 ELSE position' # 0]_vars

\* The two justification texts of notify_order.
MarginText == "Order rejected due to insufficient margin."

CancellationText == "Order canceled."

\* C21, as claimed: the Rejection event notify_order appends has the margin
\* text exactly when the order's status is Margin and the cancellation text
\* exactly when the order was cancelled (status Canceled).
C21_JustificationNamesCause ==
    [][\A st \in RejectionStatuses :
         NotifyStep(st) =>
            LET just == event_log'[Len(event_log')].justification
            IN  /\ event_log'[Len(event_log')].type \in RejectionTypes
                /\ just = MarginText <=> st = "Margin"
                /\ just = CancellationText <=> st = "Canceled"]_vars

\* The step places an order with the broker or appends a Submission event.
SubmitsOrder ==
    \/ Len(orders') > Len(orders)
    \/ /\ Len(event_log') > Len(event_log)
       /\ event_log'[Len(event_log')].type \in SubmissionTypes

\* C22: an order is placed, and a Submission event appended, only by a call
\* of next() on which should_buy answered True while flat (a buy) or
\* should_sell answered True while a position is held (a sell); no call of
\* notify_order, and so no rejection, does it.
C22_OnlyNextSubmits ==
    [][SubmitsOrder =>
         /\ data_log' # data_log
         /\ last_call'.op = "next"
         /\ Len(orders') = Len(orders) + 1
         /\ \/ /\ position = 0
               /\ last_call'.buy_signal
               /\ orders'[Len(orders')].isbuy
               /\ AppendsOne("BuyOrderSubmission")
            \/ /\ position # 0
               /\ last_call'.sell_signal
               /\ ~orders'[Len(orders')].isbuy
               /\ AppendsOne("SellOrderSubmission")]_vars

\* A rejected order was followed by the submission of another on a later bar.
C22_Witness ==
    \E i, j \in Events :
        /\ i < j
        /\ event_log[i].type \in RejectionTypes
        /\ event_log[j].type \in SubmissionTypes
        /\ event_log[j].timestamp > event_log[i].timestamp

\* A step of next() taken while an order is pending (self.order is set).
NextStepOrderPending ==
    /\ data_log' # data_log
    /\ last_call'.op = "next"
    /\ order # None

\* C23: next() run while an order, a buy or a sell, is pending calls neither
\* should_buy nor should_sell, places no order and appends nothing to
\* event_log; the order stays pending.
C23_PendingBarIsSilent ==
    [][NextStepOrderPending =>
         /\ n_should_buy' = n_should_buy
         /\ n_should_sell' = n_should_sell
         /\ orders' = orders
         /\ event_log' = event_log
         /\ order' = order
         /\ run_pc' = run_pc]_vars

\* next() has just run on a bar while a sell was pending.
C23_Witness ==
    /\ last_call.op = "next"
    /\ order # None
    /\ ~orders[order].isbuy
    /\ n_should_sell < n_next
    /\ event_log[Len(event_log)].type = "SellOrderSubmission"
    /\ event_log[Len(event_log)].timestamp < Len(data_log)

\* A step of next().
NextStep ==
    /\ data_log' # data_log
    /\ last_call'.op = "next"

\* On a bar next() calls should_buy at most once and should_sell at most
\* once, and a bar on which both answer False changes nothing of the run
\* state but the two logs; no bar changes entry_price.
QueriedOncePerBar ==
    NextStep =>
        /\ n_should_buy' - n_should_buy \in {0, 1}
        /\ n_should_sell' - n_should_sell \in {0, 1}
        /\ order = None => /\ n_should_buy' = n_should_buy + 1
                           /\ n_should_sell' = n_should_sell + 1
        /\ entry_price' = entry_price
        /\ (order = None /\ ~last_call'.buy_signal /\ ~last_call'.sell_signal)
              => /\ UNCHANGED <<order, current_submission_id, orders, position>>
                 /\ event_log' = Append(event_log, NoAction(Now))
                 /\ data_log' = Append(data_log, Now)

\* The bar windows: what the tests of should_buy and should_sell see of one.
BarWindows == BOOLEAN \X BOOLEAN \X BOOLEAN

\* C24, as claimed: should_buy and should_sell are called at most once per
\* bar and change nothing, and what each answers depends on the bar window
\* and the parameters only: should_sell answers what it answers for the same
\* bar in a run with no entry price.
C24_SignalsDependOnBarOnly ==
    /\ [][QueriedOncePerBar]_vars
    /\ [](\A w \in BarWindows :
             should_sell(w[2], w[3]) = SellCondition(w[2], w[3], None))

\* C24, amended: should_buy and should_sell are called at most once per bar
\* and change nothing; should_sell's answer depends on entry_price as well:
\* it differs from the answer of a run with no entry price just when an
\* entry price is set and the close, not above the upper band, has reached a
\* stop-loss or take-profit level.
C24_SellSignalDependsOnEntryPrice ==
    /\ [][QueriedOncePerBar]_vars
    /\ [](\A w \in BarWindows :
             should_sell(w[2], w[3]) # SellCondition(w[2], w[3], None)
                 <=> (entry_price # None /\ w[3] /\ ~w[2]))

\* With an entry price set, should_sell has answered True and a sell is
\* pending.
C24_Witness ==
    /\ last_call.op = "next"
    /\ last_call.sell_signal
    /\ entry_price # None
    /\ n_should_sell >= 2
    /\ order # None
    /\ ~orders[order].isbuy

\* The positions of the Execution events in event_log.
Executions == {i \in Events : event_log[i].type \in ExecutionTypes}

\* C25: entry_price is non-null exactly when the order completed last was a
\* buy, and is then the price that buy was executed at; a notification other
\* than Completed leaves entry_price as it was.
C25_EntryPriceTracksLastCompletion ==
    /\ [](IF Executions = {}
            THEN entry_price = None
            ELSE LET last == event_log[Max(Executions)]
                 IN  IF last.type = "BuyOrderExecution"
                       THEN entry_price # None /\ entry_price = last.ref_price
                       ELSE entry_price = None)
    /\ [][\A st \in {"Submitted", "Accepted", "Partial"} \cup RejectionStatuses :
             NotifyStep(st) => entry_price' = entry_price]_vars

\* A buy was completed, then a sell, then a buy again, and after that an
\* order was rejected: entry_price is that of the second buy.
C25_Witness ==
    /\ entry_price # None
    /\ last_call.op = "notify_order"
    /\ last_call.status \in RejectionStatuses
    /\ \E i, j \in Executions :
          /\ i < j
          /\ event_log[i].type = "SellOrderExecution"
          /\ event_log[j].type = "BuyOrderExecution"

\* C26: data_log has one entry for each call of next(), early returns and
\* the call that raises included, and the entries are in bar order; a call of
\* next() appends exactly one entry and notify_order none.
C26_OneSnapshotPerBar ==
    /\ [](/\ Len(data_log) = n_next
          /\ \A i \in DOMAIN data_log : data_log[i] = i)
    /\ [][/\ NextStep => /\ Len(data_log') = Len(data_log) + 1
                         /\ SubSeq(data_log', 1, Len(data_log)) = data_log
          /\ last_call'.op = "notify_order" => data_log' = data_log]_vars

\* next() has run on every bar, on one of them with an order pending.
C26_Witness ==
    /\ n_next = MaxBars
    /\ Len(data_log) = MaxBars
    /\ n_should_buy < n_next
    /\ n_should_buy >= 1

IsPrefix(a, b) == Len(a) <= Len(b) /\ SubSeq(b, 1, Len(a)) = a

\* The lists of trial_details.
DetailKeys ==
    {"params", "initial_portfolios", "final_portfolios", "returns",
     "relative_returns", "sharpe_ratio", "drawdown", "sqn", "data_logs"}

\* C28: no step of the optimization (a later trial, a call of the callback,
\* the building of the results table, the ranking) changes a value recorded
\* for an earlier trial: every list of trial_details, trial_outputs and the
\* study's trials only grow at the end, and the rows of the results table
\* are the values recorded, trial by trial.
C28_TrialRecordsOnlyGrow ==
    /\ [][/\ \A k \in DetailKeys : IsPrefix(trial_details[k], trial_details'[k])
          /\ IsPrefix(trial_outputs, trial_outputs')
          /\ IsPrefix(study_trials, study_trials')
          /\ results_df # <<>> => results_df' = results_df]_vars
    /\ [](\A i \in DOMAIN results_df :
             /\ results_df[i].trial_number = i - 1
             /\ results_df[i].params = trial_details.params[i]
             /\ results_df[i].initial_portfolio = trial_details.initial_portfolios[i]
             /\ results_df[i].final_portfolio = trial_details.final_portfolios[i]
             /\ results_df[i].portfolio_return = trial_details.returns[i]
             /\ results_df[i].relative_portfolio_return =
                   trial_details.relative_returns[i])

\* Three trials with different outcomes have been recorded, the callback was
\* called after each, the table was built and ranked.
C28_Witness ==
    /\ Len(trial_details.returns) = MaxTrials
    /\ trial_details.returns[1] # trial_details.returns[2]
    /\ Len(callback_log) = MaxTrials
    /\ Len(results_df) = MaxTrials
    /\ top_trials # <<>>

\* The BuyOrderExecution events before position i.
BuysExecutedBefore(i) ==
    {j \in 1..(i - 1) : event_log[j].type = "BuyOrderExecution"}

\* C30, as claimed: every SellOrderSubmission has the submission_id of the
\* most recent BuyOrderExecution before it in event_log.
C30_SellCarriesIdOfExecutedBuy ==
    \A i \in Events :
        event_log[i].type = "SellOrderSubmission" =>
            /\ BuysExecutedBefore(i) # {}
            /\ event_log[i].submission_id =
                  event_log[Max(BuysExecutedBefore(i))].submission_id

\* ---- C29 ----
\* The field names of a variant other than timestamp, in ascending order.
FieldNames(e) ==
    CASE e.type = "NoAction" -> <<"justification">>
      [] e.type \in OrderTypes ->
             <<"justification", "ref_price", "size", "submission_id">>
      [] OTHER -> <<"justification", "submission_id">>

\* The rendering the specification describes: the variant name, the ISO
\* timestamp, then name=value of each field once, whole, in name order.
CanonicalRendering(e) ==
    LET names == FieldNames(e)
    IN  <<e.type, "(", "t", "=">> \o isoformat(e.timestamp) \o Separator
            \o join([i \in DOMAIN names |->
                        KeyValue(names[i], e[names[i]])])
            \o <<")">>

\* C29: the string rendering of an event is the variant name, then the ISO
\* timestamp, then every field other than timestamp as name=value in
\* ascending field-name order, each field exactly once and intact, for every
\* variant and every field value, a free-form justification included.
C29_RenderingListsFieldsByName ==
    str_pc = "returned" => rendered = CanonicalRendering(event)

\* ---- C31 ----
\* The step is a call of next() that places a buy order.
SubmitsBuy ==
    /\ NextStep
    /\ Len(orders') = Len(orders) + 1
    /\ orders'[Len(orders')].isbuy

\* The step is the notification that a sell order completed.
SellCompletes ==
    /\ NotifyStep("Completed")
    /\ ~orders[last_call'.order].isbuy

\* C31: current_submission_id is assigned only when next() submits a buy, and
\* is then an id; it is reset to None only when a sell order completes, and
\* is None after that; every other call, the completion or rejection of a
\* buy, the rejection of a sell and a Submitted or Accepted notification
\* among them, leaves it unchanged.
C31_SubmissionIdFrame ==
    [][/\ SubmitsBuy => current_submission_id' # None
       /\ SellCompletes => current_submission_id' = None
       /\ ~SubmitsBuy /\ ~SellCompletes =>
              current_submission_id' = current_submission_id]_vars

\* A buy was submitted and completed with the id kept, then a sell completed
\* and the id is None again.
C31_Witness ==
    /\ last_call.op = "notify_order"
    /\ last_call.status = "Completed"
    /\ ~orders[last_call.order].isbuy
    /\ current_submission_id = None
    /\ \E i \in Events : event_log[i].type = "BuyOrderExecution"

\* ---- C32 ----
\* The position has changed only through completed orders: every fill the
\* broker made belongs to an order that has completed.
FillsOnlyOfCompletedOrders ==
    \A o \in Handles :
        orders[o].executed # 0 => orders[o].status = "Completed"

\* C32, as claimed: in a run whose position changes only through completed
\* orders, current_submission_id is not None whenever a position is held and
\* no order is pending, and the ValueError of next() is not raised.
C32_SubmissionIdSetWhilePositionHeld ==
    FillsOnlyOfCompletedOrders =>
        /\ position # 0 /\ order = None => current_submission_id # None
        /\ run_pc # "raised"

\* ---- C33 ----
\* The Execution events of event_log, in the order they were appended.
ExecutionLog == SelectSeq(event_log, LAMBDA e : e.type \in ExecutionTypes)

\* C33, as claimed: the Execution events of event_log alternate
\* BuyOrderExecution, SellOrderExecution, starting with a buy, and the
\* position is never short nor more than one stake (two halves).
C33_ExecutionsAlternate ==
    /\ \A i \in DOMAIN ExecutionLog :
          ExecutionLog[i].type =
              IF i % 2 = 1 THEN "BuyOrderExecution" ELSE "SellOrderExecution"
    /\ position \in 0..2

\* ---- C34 ----
\* Position i of every per-trial list, and of trial_outputs, holds the values
\* of the trial optuna numbered i - 1 (trial numbers start at 0).
HoldsTrial(i) ==
    LET output == trial_outputs[i]
        initial_portfolio == output.portfolio_info.initial_portfolio
        final_portfolio == output.portfolio_info.final_portfolio
    IN  /\ study_trials[i].number = i - 1
        /\ study_trials[i].state = "COMPLETE"
        /\ study_trials[i].value = trial_details.returns[i]
        /\ trial_details.params[i] = output.params
        /\ trial_details.initial_portfolios[i] = initial_portfolio
        /\ trial_details.final_portfolios[i] = final_portfolio
        /\ trial_details.returns[i] = final_portfolio - initial_portfolio
        /\ trial_details.relative_returns[i] =
               <<final_portfolio - initial_portfolio, initial_portfolio>>
        /\ trial_details.data_logs[i] = output.output_strategy.data_log

\* Row i of results_df describes the trial trial_outputs[i] is the output of.
RowMatchesOutput(i) ==
    LET output == trial_outputs[i]
    IN  /\ results_df[i].trial_number = study_trials[i].number
        /\ results_df[i].params = output.params
        /\ results_df[i].initial_portfolio =
               output.portfolio_info.initial_portfolio
        /\ results_df[i].final_portfolio =
               output.portfolio_info.final_portfolio
        /\ results_df[i].portfolio_return = study_trials[i].value

\* C34: after k completed trials every per-trial list of trial_details and
\* trial_outputs has length k and holds at position i the values of trial
\* number i, so that row i of results_df and trial_outputs[i] describe the
\* same trial.
C34_PerTrialListsAligned ==
    LET k == Cardinality(Complete(study_trials))
    IN  /\ \A key \in DetailKeys : Len(trial_details[key]) = k
        /\ Len(trial_outputs) = k
        /\ \A i \in 1..k : HoldsTrial(i)
        /\ \A i \in DOMAIN results_df : RowMatchesOutput(i)

\* An optimization has returned a table of several trials whose outputs
\* differ.
C34_Witness ==
    /\ opt_pc = "returned"
    /\ Len(results_df) = MaxTrials
    /\ trial_outputs[1] # trial_outputs[2]
    /\ Len(trial_details.data_logs) = MaxTrials

\* ---- C35 ----
\* C35, as claimed: the second of two successive calls with the same
\* arguments and the default sampler proposes, trial by trial, the parameter
\* assignments the first call proposed.
C35_SecondCallProposesTheSame ==
    \A i \in DOMAIN proposed[2] : proposed[2][i] = proposed[1][i]

\* ---- C36 ----
\* C36, as claimed: when an optimization of at least one trial has returned,
\* every entry the results views read is in the dictionary returned: study,
\* trial_details, results_df and trial_outputs, and in trial_details the
\* data_logs_df and the event_logs_df of the trials.
C36_ViewsReadWhatIsReturned ==
    opt_pc = "returned" /\ results_df # <<>> =>
        /\ ViewReads \subseteq DOMAIN ReturnValue
        /\ ViewReadsOfDetails \subseteq DOMAIN ReturnValue.trial_details

====
